---- MODULE Spec2Model ----
(***************************************************************************)
(* A model of term-render (src/src/main.rs).                               *)
(*                                                                         *)
(* Two state machines share this module:                                   *)
(*   Spec / FairSpec : main's start-up and compute_brightnesses -- the     *)
(*                     profile cache (load / self-heal / store), the       *)
(*                     parallel glyph rasterization behind SCALE_CONTEXT   *)
(*                     and the brightness normalisation;                   *)
(*   RenderSpec      : draw_ascii_image and the resize loop of main.       *)
(* Characters are code points, channel values are 0..255.                  *)
(***************************************************************************)
EXTENDS Integers, Sequences, FiniteSets, TLC

VARIABLES
    \* ---- main / compute_brightnesses -------------------------------------
    pc,            \* position of the process: idle, load, raster, aggregate, store, done
    fs,            \* the cache file of the resolved font (cache_path)
    lookup,        \* outcome of the cache lookup of this run: none, hit, miss, corrupt
    tasks,         \* per character: position of its rasterization task
    mutex,         \* SCALE_CONTEXT: the character holding the lock, or Free
    image,         \* per task: the image returned by render.render, held by the task
    bitmaps,       \* the collected HashMap<char, (width, height, data)>
    brightnesses,  \* the HashMap<char, u16> being built
    result,        \* the value compute_brightnesses returned
    lastStored,    \* history: the profile the last store wrote into the file still on disk
    \* ---- draw_ascii_image ------------------------------------------------
    rpc,           \* position of the render call: idle, row, cell, flushed, exit
    profile,       \* brightnesses argument (equal mapping in both executions)
    order,         \* per execution: iteration order of its HashMap instance
    source,        \* source_image dimensions
    use_color,     \* !arguments.plain
    terminal_size, \* (columns, rows) of this render call
    stretched,     \* dimensions after resize_exact(2W, H)
    scaled,        \* dimensions of scaled_image
    pixel_y,
    pixel_x,
    cells,         \* pixels of scaled_image read so far, in reading order
    out            \* per execution: terminal instructions queued by this render call

computeVars == <<pc, fs, lookup, tasks, mutex, image, bitmaps, brightnesses, result, lastStored>>
renderVars == <<rpc, profile, order, source, use_color, terminal_size, stretched, scaled,
                pixel_y, pixel_x, cells, out>>
vars == <<computeVars, renderVars>>

---------------------------------------------------------------------------
\* Bounds of the model.
NumChars == 2
MaxGlyphW == 2
MaxCols == 2
MaxSrcW == 2

GlyphHeights == {0, 1}
TermRows == {1, 2}
SrcHeights == {1, 2}

\* Program constants.
CHARACTER_RANGE == <<32, 127>>
MAX_BRIGHTNESS == 255 * 255
U16 == 2 ^ 16

Max(a, b) == IF a >= b THEN a ELSE b
Min(a, b) == IF a <= b THEN a ELSE b
AbsDiff(a, b) == IF a >= b THEN a - b ELSE b - a

Perms(S) == {s \in [1..Cardinality(S) -> S] : \A i, j \in 1..Cardinality(S) : s[i] = s[j] => i = j}

EmptyMap == [c \in {} |-> 0]
Insert(m, k, v) == [x \in DOMAIN m \cup {k} |-> IF x = k THEN v ELSE m[x]]

RECURSIVE SumSeq(_)
SumSeq(s) == IF s = <<>> THEN 0 ELSE Head(s) + SumSeq(Tail(s))

SetMax(S) == IF S = {} THEN 0 ELSE CHOOSE y \in S : \A z \in S : y >= z

\* Rgba<u8>::to_luma_alpha: integer sRGB luma of the colour channels, alpha kept.
Luma(p) == (2126 * p[1] + 7152 * p[2] + 722 * p[3]) \div 10000
Alpha(p) == p[4]

---------------------------------------------------------------------------
\* The profile cache file (serde_json of HashMap<char, u16>).
\*
\* A file is absent, or holds text.  Text that is a JSON object is the
\* sequence of its members, each a string key (a sequence of code points)
\* and a number; any other text is not JSON.

Absent == [exists |-> FALSE, json |-> FALSE, entries |-> <<>>]
NotJson == [exists |-> TRUE, json |-> FALSE, entries |-> <<>>]
Object(entries) == [exists |-> TRUE, json |-> TRUE, entries |-> entries]
Member(key, val) == [key |-> key, val |-> val]

\* serde_json::to_writer(&brightnesses): one member per entry, in the map's
\* iteration order; a char key is written as a one-character string.
SerializeDropsValue(P, ord) == Object([i \in 1..Len(ord) |-> Member(<<ord[i]>>, P[ord[i]] % 256)])
Serialize(P, ord) == Object([i \in 1..Len(ord) |-> Member(<<ord[i]>>, P[ord[i]])])

\* serde_json::from_reader::<HashMap<char, u16>>: every key must be a string
\* of exactly one character and every value an integer that fits u16; the
\* members are inserted in order, a repeated key keeping its last value.
MemberOk(m) == Len(m.key) = 1 /\ m.val >= 0 /\ m.val < U16

RECURSIVE InsertAll(_, _)
InsertAll(entries, acc) ==
    IF entries = <<>> THEN acc
    ELSE InsertAll(Tail(entries), Insert(acc, Head(entries).key[1], Head(entries).val))

ParseOk(file) == file.exists /\ file.json /\ \A i \in 1..Len(file.entries) : MemberOk(file.entries[i])
Parse(file) == InsertAll(file.entries, EmptyMap)

\* Lines 144-150: what is left of the cache file after the lookup.
\* Opened and parsed: untouched.  Otherwise, if the path exists, removed.
FileAfterLookupKeepsCorrupt(file) == file
FileAfterLookup(file) == IF ParseOk(file) THEN file ELSE Absent

LookupOutcome(file) ==
    IF ParseOk(file) THEN "hit" ELSE IF file.exists THEN "corrupt" ELSE "miss"

---------------------------------------------------------------------------
\* Glyph rasters.

\* The characters of CHARACTER_RANGE the model iterates over: the first
\* NumChars + 1 code points and the last one.
ModelChars == {c \in CHARACTER_RANGE[1]..CHARACTER_RANGE[2] :
                  c <= CHARACTER_RANGE[1] + NumChars \/ c = CHARACTER_RANGE[2]}
IsWhitespace(c) == c = 32
IsControl(c) == c < 32 \/ c = 127
Eligible(c) == ~IsWhitespace(c) /\ ~IsControl(c)

\* 4-byte chunks that array_chunks::<4> can read out of a glyph's data.
GlyphPixels == {<<255, 255, 255, 255>>, <<255, 255, 255, 128>>}

SeqsUpTo(S, n) == UNION {[1..k -> S] : k \in 0..n}

\* What render.render can return for a character: an image with its
\* placement width and height and its data.  The data holds width * height
\* samples of one byte (a mask) or four bytes (colour), so it yields at most
\* width * height chunks of four bytes.
Glyphs == {[width |-> w, height |-> h, data |-> d] :
              w \in 0..MaxGlyphW, h \in GlyphHeights, d \in SeqsUpTo(GlyphPixels, MaxGlyphW * SetMax(GlyphHeights))}
GlyphImages == {g \in Glyphs : Len(g.data) <= g.width * g.height}
NoImage == [width |-> 0, height |-> 0, data |-> <<>>]

Free == 0

\* Lines 174-176.
MaximumWidth(bm) == SetMax({bm[c].width : c \in DOMAIN bm})
MaximumHeight(bm) == SetMax({bm[c].height : c \in DOMAIN bm})
PixelsPerCell(bm) == MaximumWidth(bm) * MaximumHeight(bm)

\* Lines 183-192: sum of luma * alpha over the chunks, divided by
\* pixels_per_cell (u64), then `as u16`.
RawBrightness(bitmap, ppc) ==
    (SumSeq([i \in 1..Len(bitmap.data) |-> Luma(bitmap.data[i]) * Alpha(bitmap.data[i])])
        \div ppc) % U16

\* value * a * b divided by m, and the remainder, for value, m < 2^16 and
\* a, b < 2^9, computed in two steps so that no intermediate product exceeds
\* 32 bits.
MulDivQuot(value, a, b, m) ==
    ((value * a) \div m) * b + ((((value * a) % m) * b) \div m)
MulDivRem(value, a, b, m) == (((value * a) % m) * b) % m

\* `x as u16` of the non-negative f64 quotient value * a * b / m: the cast
\* saturates, NaN (0 / 0) becomes 0 and +inf (x / 0) becomes u16::MAX.
QuotientAsU16(value, a, b, m) ==
    IF m = 0 THEN (IF value = 0 THEN 0 ELSE U16 - 1)
    ELSE Min(MulDivQuot(value, a, b, m), U16 - 1)

\* Lines 196-198: value / (max / MAX_BRIGHTNESS) in f64, truncated, with
\* MAX_BRIGHTNESS = 255 * 255.  The exact quotient is
\* value * MAX_BRIGHTNESS / max; when it is a whole number the two roundings
\* of the f64 division may land just below it, and the truncation then
\* yields one less (`short`).
NormalisedToU16Max(value, maxv, short) == QuotientAsU16(value, 255, 257, maxv)
Normalised(value, maxv, short) ==
    LET q == QuotientAsU16(value, 255, 255, maxv)
    IN  IF short /\ maxv # 0 /\ MulDivRem(value, 255, 255, maxv) = 0 /\ q > 0 /\ q < U16 - 1
        THEN q - 1 ELSE q

---------------------------------------------------------------------------
\* main start-up and compute_brightnesses.

\* Cache files the program may find at start: none, text that is not JSON,
\* an object that is not a profile (a key of two characters, a value beyond
\* u16), and well-formed profiles (empty, one entry, a repeated key).
FileSamples ==
    { Absent,
      NotJson,
      Object(<<Member(<<33, 34>>, 7)>>),
      Object(<<Member(<<33>>, U16)>>),
      Object(<<>>),
      Object(<<Member(<<33>>, 7)>>),
      Object(<<Member(<<33>>, 1), Member(<<33>>, MAX_BRIGHTNESS + 1)>>) }

\* Lines 159-161: one task per character of the range; the characters the
\* filter drops never reach the closure.
InitialTasks == [c \in ModelChars |-> IF Eligible(c) THEN "todo" ELSE "filtered"]

NothingStored == [valid |-> FALSE, data |-> EmptyMap]
Stored(P) == [valid |-> TRUE, data |-> P]

ComputeIdle(file) ==
    /\ pc = "idle"
    /\ fs = file
    /\ lookup = "none"
    /\ tasks = InitialTasks
    /\ mutex = Free
    /\ image = [c \in ModelChars |-> NoImage]
    /\ bitmaps = EmptyMap
    /\ brightnesses = EmptyMap
    /\ result = EmptyMap
    /\ lastStored = NothingStored

InitCompute == \E file \in FileSamples : ComputeIdle(file)

\* Lines 62-70: parse the arguments, remove the cache directory when --clean
\* is given and it exists, then call compute_brightnesses.
MainStart(clean) ==
    /\ pc = "idle"
    /\ pc' = "load"
    /\ IF clean /\ fs.exists
       THEN fs' = Absent /\ lastStored' = NothingStored
       ELSE UNCHANGED <<fs, lastStored>>
    /\ UNCHANGED <<lookup, tasks, mutex, image, bitmaps, brightnesses, result, renderVars>>

\* Where the lookup sends the run: a parsed profile is returned at once
\* (line 147), anything else falls through to profiling.
AfterLookupAlwaysProfiles(file) == "raster"
AfterLookup(file) == IF ParseOk(file) THEN "done" ELSE "raster"

\* Lines 142-150: the cache lookup.
Load ==
    /\ pc = "load"
    /\ lookup' = LookupOutcome(fs)
    /\ fs' = FileAfterLookup(fs)
    /\ pc' = AfterLookup(fs)
    /\ result' = IF AfterLookup(fs) = "done" THEN Parse(fs) ELSE result
    /\ lastStored' = IF fs' = fs THEN lastStored ELSE NothingStored
    /\ UNCHANGED <<tasks, mutex, image, bitmaps, brightnesses, renderVars>>

\* Mutex::lock succeeds only while nobody holds the lock.
LockAvailable(m) == m = Free

\* Line 163: SCALE_CONTEXT.lock().
Acquire(c) ==
    /\ pc = "raster"
    /\ tasks[c] = "todo"
    /\ LockAvailable(mutex)
    /\ mutex' = c
    /\ tasks' = [tasks EXCEPT ![c] = "locked"]
    /\ UNCHANGED <<pc, fs, lookup, image, bitmaps, brightnesses, result, lastStored, renderVars>>

\* The lock after the closure returns early through `?` on line 166: the
\* guard goes out of scope and unlocks.
MutexAfterEarlyReturnLeaks(m) == m
MutexAfterEarlyReturn(m) == Free

\* Lines 164-166, render.render returned None: the character is omitted.
RenderNone(c) ==
    /\ pc = "raster"
    /\ tasks[c] = "locked"
    /\ mutex' = MutexAfterEarlyReturn(mutex)
    /\ tasks' = [tasks EXCEPT ![c] = "done"]
    /\ UNCHANGED <<pc, fs, lookup, image, bitmaps, brightnesses, result, lastStored, renderVars>>

\* Lines 164-166, render.render returned an image.
RenderSome(c, g) ==
    /\ pc = "raster"
    /\ tasks[c] = "locked"
    /\ tasks' = [tasks EXCEPT ![c] = "rendered"]
    /\ image' = [image EXCEPT ![c] = g]
    /\ UNCHANGED <<pc, fs, lookup, mutex, bitmaps, brightnesses, result, lastStored, renderVars>>

\* Lines 168-170: drop(context), then the entry joins the collected map.
Drop(c) ==
    /\ pc = "raster"
    /\ tasks[c] = "rendered"
    /\ mutex' = Free
    /\ tasks' = [tasks EXCEPT ![c] = "done"]
    /\ bitmaps' = Insert(bitmaps, c, image[c])
    /\ image' = [image EXCEPT ![c] = NoImage]
    /\ UNCHANGED <<pc, fs, lookup, brightnesses, result, lastStored, renderVars>>

\* Line 172: collect() returns once every task has finished.
Join ==
    /\ pc = "raster"
    /\ \A c \in ModelChars : tasks[c] \in {"done", "filtered"}
    /\ pc' = "aggregate"
    /\ UNCHANGED <<fs, lookup, tasks, mutex, image, bitmaps, brightnesses, result, lastStored, renderVars>>

\* Lines 182-195 and 196-198 on the collected bitmaps.
RawBrightnesses(bm) == [c \in DOMAIN bm |-> RawBrightness(bm[c], PixelsPerCell(bm))]
MaxValue(m) == SetMax({m[c] : c \in DOMAIN m})
NormalisedAll(raw, shorts) ==
    [c \in DOMAIN raw |-> Normalised(raw[c], MaxValue(raw), raw[c] \in shorts)]

\* Lines 174-198: the shared denominator, the early return of an empty
\* profile, the raw brightnesses and their normalisation.  The bitmaps are
\* not read after line 193 and the model forgets them here.
Aggregate ==
    /\ pc = "aggregate"
    /\ IF PixelsPerCell(bitmaps) = 0
       THEN /\ pc' = "done"
            /\ result' = EmptyMap
            /\ UNCHANGED brightnesses
       ELSE /\ \E shorts \in SUBSET {RawBrightnesses(bitmaps)[c] : c \in DOMAIN bitmaps} :
                 brightnesses' = NormalisedAll(RawBrightnesses(bitmaps), shorts)
            /\ pc' = "store"
            /\ UNCHANGED result
    /\ bitmaps' = EmptyMap
    /\ UNCHANGED <<fs, lookup, tasks, mutex, image, lastStored, renderVars>>

\* Lines 200-208: create the directories, create (truncate) the file, write
\* the profile; the writer is flushed when it goes out of scope at return.
Store ==
    /\ pc = "store"
    /\ \E ord \in Perms(DOMAIN brightnesses) : fs' = Serialize(brightnesses, ord)
    /\ lastStored' = Stored(brightnesses)
    /\ result' = brightnesses
    /\ pc' = "done"
    /\ UNCHANGED <<lookup, tasks, mutex, image, bitmaps, brightnesses, renderVars>>

\* The process ends (main returns); only the file system outlives it.
Exit ==
    /\ pc = "done"
    /\ pc' = "idle"
    /\ lookup' = "none"
    /\ tasks' = InitialTasks
    /\ bitmaps' = EmptyMap
    /\ brightnesses' = EmptyMap
    /\ result' = EmptyMap
    /\ UNCHANGED <<fs, mutex, image, lastStored, renderVars>>

Next ==
    \/ \E clean \in BOOLEAN : MainStart(clean)
    \/ Load
    \/ \E c \in ModelChars : Acquire(c)
    \/ \E c \in ModelChars : RenderNone(c)
    \/ \E c \in ModelChars, g \in GlyphImages : RenderSome(c, g)
    \/ \E c \in ModelChars : Drop(c)
    \/ Join
    \/ Aggregate
    \/ Store
    \/ Exit

\* The render call before it starts (and throughout Spec, which stops at
\* the return of compute_brightnesses).
RenderIdle ==
    /\ rpc = "idle"
    /\ terminal_size = <<0, 0>>  \* not read before the first draw sets it
    /\ stretched = <<0, 0>>
    /\ scaled = <<0, 0>>
    /\ pixel_y = 0
    /\ pixel_x = 0
    /\ cells = <<>>
    /\ out = [r \in {1, 2} |-> <<>>]

Init ==
    /\ InitCompute
    /\ RenderIdle
    /\ profile = EmptyMap
    /\ order = [r \in {1, 2} |-> <<>>]
    /\ source = <<1, 1>>
    /\ use_color = TRUE

Spec == Init /\ [][Next]_vars

\* A step of some rasterization task.
TaskStep ==
    \E c \in ModelChars :
        Acquire(c) \/ RenderNone(c) \/ (\E g \in GlyphImages : RenderSome(c, g)) \/ Drop(c)

\* The worker pool keeps running a task that can take a step.
FairSpec == Spec /\ WF_vars(TaskStep)

---------------------------------------------------------------------------
\* Properties of main start-up and compute_brightnesses.

Holding(c) == tasks[c] \in {"locked", "rendered"}
Profiling == lookup \in {"miss", "corrupt"}
InRange(m) == \A c \in DOMAIN m : m[c] >= 0 /\ m[c] <= 255 * 255

\* C1 -- cache self-healing: when the cache file exists but its content does
\* not parse as a profile, the lookup yields absence (the run goes on to
\* profiling and nothing is returned from the file) and, when the lookup has
\* finished, the cache file is no longer on disk.
C1_SelfHeal ==
    [][(pc = "load" /\ fs.exists /\ ~ParseOk(fs))
          => (pc' = "raster" /\ lookup' = "corrupt" /\ result' = result /\ ~fs'.exists)]_vars

C1_Witness ==
    pc = "raster" /\ lookup = "corrupt" /\ ~fs.exists /\ tasks = InitialTasks

\* C2 -- cache round-trip: once the store step has written a (non-empty)
\* profile P, the next lookup of the file returns a mapping equal to P, and
\* does so without rasterizing anything.
C2_RoundTrip ==
    [][(pc = "load" /\ lastStored.valid)
          => (pc' = "done" /\ lookup' = "hit" /\ result' = lastStored.data
              /\ tasks' = tasks /\ bitmaps' = bitmaps)]_vars

C2_Witness ==
    /\ pc = "done" /\ lookup = "hit" /\ lastStored.valid
    /\ result = lastStored.data
    /\ Cardinality(DOMAIN result) >= 2
    /\ \E c \in DOMAIN result : result[c] > 255

\* C7 -- profile value range: every value of a profile that profiling
\* produces lies in 0..MAX_BRIGHTNESS (255 * 255), also when every raw
\* brightness is zero.
C7_ProfileRange ==
    /\ pc = "store" => InRange(brightnesses)
    /\ (pc = "done" /\ Profiling) => InRange(result)

\* Every raw brightness was zero exactly when the profile is non-empty and
\* all its values are zero: a non-zero maximum normalises to 65025 or 65024.
C7_Witness ==
    /\ pc = "store"
    /\ DOMAIN brightnesses # {}
    /\ \A c \in DOMAIN brightnesses : brightnesses[c] = 0

\* C9 -- scaler mutual exclusion: at most one character's task holds the
\* glyph-scaling context at a time, the holder is a task that is rasterizing
\* its own glyph, a task that finishes has released it whether a glyph was
\* produced or the character omitted, and every per-character task
\* eventually completes.
C9_ScalerExclusion ==
    /\ [](/\ Cardinality({c \in ModelChars : Holding(c)}) <= 1
          /\ \A c \in ModelChars : Holding(c) <=> mutex = c)
    /\ [][\A c \in ModelChars : (Holding(c) /\ tasks'[c] = "done") => mutex' = Free]_vars
    /\ (pc = "raster") ~> (\A c \in ModelChars : tasks[c] \in {"done", "filtered"})

\* Both outcomes have happened and the lock is free again.
C9_Witness ==
    /\ pc = "raster" /\ mutex = Free
    /\ \E c, d \in ModelChars :
          /\ tasks[c] = "done" /\ c \in DOMAIN bitmaps
          /\ tasks[d] = "done" /\ d \notin DOMAIN bitmaps

\* C10 -- profiling only after a cache miss: rasterization, aggregation and
\* the cache write happen only in a run whose lookup yielded absence; a
\* lookup that yields a profile returns it, and from then on the run neither
\* rasterizes nor rewrites nor deletes the cache file.
C10_ProfilingOnlyAfterMiss ==
    [][/\ (tasks' # tasks \/ image' # image \/ bitmaps' # bitmaps \/ brightnesses' # brightnesses)
            => Profiling
       /\ (pc \notin {"idle", "load"} /\ fs' # fs) => Profiling
       /\ (pc = "load" /\ lookup' = "hit") => (pc' = "done" /\ result' = Parse(fs) /\ fs' = fs)
       /\ lookup = "hit" => (fs' = fs /\ tasks' = tasks /\ image' = image
                               /\ bitmaps' = bitmaps /\ brightnesses' = brightnesses)]_vars

C10_Witness ==
    /\ pc = "done" /\ lookup = "hit"
    /\ fs.exists /\ result = Parse(fs) /\ DOMAIN result # {}
    /\ tasks = InitialTasks /\ bitmaps = EmptyMap /\ brightnesses = EmptyMap

---------------------------------------------------------------------------
\* draw_ascii_image.
\*
\* Two executions are advanced together on equal arguments: the same profile
\* mapping, source image, terminal size and colour flag.  Each owns its
\* HashMap instance, whose iteration order (order[r]) is fixed for the
\* instance and differs between instances.  The resized image is a function
\* of the shared arguments, so both executions read the same pixels.
Runs == {1, 2}

\* Terminal instructions (crossterm commands).
Clear == [op |-> "Clear", arg |-> <<>>]
MoveToRow(y) == [op |-> "MoveToRow", arg |-> <<y>>]
MoveToColumn(x) == [op |-> "MoveToColumn", arg |-> <<x>>]
SetForegroundColor(r, g, b) == [op |-> "SetForegroundColor", arg |-> <<r, g, b>>]
PrintChar(ch) == [op |-> "Print", arg |-> <<ch>>]

\* Pixels the resized image may hold: fully transparent, opaque white, and
\* a half-transparent pixel of luma 254 (brightness 254 * 128 = 32512).
RenderPixels == {<<10, 20, 30, 0>>, <<255, 255, 255, 255>>, <<252, 255, 255, 128>>}

\* Profiles handed to the renderer: empty; one with a character on either
\* side of brightness 32512 at equal distance; one that never ties.
ProfileSamples ==
    { EmptyMap,
      (33 :> 0) @@ (64 :> 65024),
      (33 :> 0) @@ (64 :> MAX_BRIGHTNESS) }

\* Rounded quotient n / d of non-negative integers (f64::round).
Round(n, d) == (2 * n + d) \div (2 * d)

\* DynamicImage::resize keeps the aspect ratio: the image is scaled by the
\* smaller of nwidth / width and nheight / height, each side rounded and at
\* least 1 (widths here are far below u32::MAX).
ResizeDimensionsExact(width, height, nwidth, nheight) == <<nwidth, nheight>>
ResizeDimensions(width, height, nwidth, nheight) ==
    IF nwidth * height <= nheight * width
    THEN <<Max(Round(width * nwidth, width), 1), Max(Round(height * nwidth, width), 1)>>
    ELSE <<Max(Round(width * nheight, height), 1), Max(Round(height * nheight, height), 1)>>

\* Line 114: the filter on the alpha channel.
DrawnAlways(p) == TRUE
Drawn(p) == Alpha(p) > 0

\* Lines 116-117: luma as u16 * alpha as u16.
Brightness(p) == (Luma(p) * Alpha(p)) % U16

\* Lines 118-123: min_by_key over the map's iteration order returns the
\* first of the entries at the least distance; ' ' for an empty map.
FirstChar(ord, b) == IF ord = <<>> THEN 32 ELSE ord[1]
FarthestChar(ord, b) ==
    IF ord = <<>> THEN 32
    ELSE ord[CHOOSE i \in 1..Len(ord) : \A j \in 1..Len(ord) :
                 \/ AbsDiff(profile[ord[i]], b) > AbsDiff(profile[ord[j]], b)
                 \/ (AbsDiff(profile[ord[i]], b) = AbsDiff(profile[ord[j]], b) /\ i <= j)]
NearestChar(ord, b) ==
    IF ord = <<>> THEN 32
    ELSE ord[CHOOSE i \in 1..Len(ord) : \A j \in 1..Len(ord) :
                 \/ AbsDiff(profile[ord[i]], b) < AbsDiff(profile[ord[j]], b)
                 \/ (AbsDiff(profile[ord[i]], b) = AbsDiff(profile[ord[j]], b) /\ i <= j)]

\* Lines 125-131: the instructions queued for one drawn cell.
EmitColorLast(p, x, ch, color) ==
    <<MoveToColumn(x % U16), PrintChar(ch)>>
        \o (IF color THEN <<SetForegroundColor(p[1], p[2], p[3])>> ELSE <<>>)
Emit(p, x, ch, color) ==
    (IF color THEN <<SetForegroundColor(p[1], p[2], p[3])>> ELSE <<>>)
        \o <<MoveToColumn(x % U16), PrintChar(ch)>>

\* Lines 112-132 for one pixel of the row.
CellInstrs(p, x, ord) ==
    IF Drawn(p) THEN Emit(p, x, NearestChar(ord, Brightness(p)), use_color) ELSE <<>>

InitRender ==
    /\ RenderIdle
    /\ profile \in ProfileSamples
    /\ order \in [Runs -> Perms(DOMAIN profile)]
    /\ source \in (1..MaxSrcW) \X SrcHeights
    /\ use_color \in BOOLEAN
    /\ ComputeIdle(Absent)

\* Lines 76 and 84-86 with lines 103-107: the first draw at the terminal's
\* size or a redraw on a resize event; the two resizes, then Clear.
DrawStart(size) ==
    /\ rpc \in {"idle", "flushed"}
    /\ terminal_size' = size
    /\ stretched' = <<source[1] * 2, source[2]>>
    /\ scaled' = ResizeDimensions(source[1] * 2, source[2], size[1], size[2])
    /\ out' = [r \in Runs |-> <<Clear>>]
    /\ cells' = <<>>
    /\ pixel_y' = 0
    /\ pixel_x' = 0
    /\ rpc' = "row"
    /\ UNCHANGED <<profile, order, source, use_color, computeVars>>

\* Lines 109-110: the next row, if any.
RowStart ==
    /\ rpc = "row"
    /\ pixel_y < scaled[2]
    /\ out' = [r \in Runs |-> Append(out[r], MoveToRow(pixel_y % U16))]
    /\ pixel_x' = 0
    /\ IF scaled[1] = 0
       THEN pixel_y' = pixel_y + 1 /\ rpc' = "row"
       ELSE pixel_y' = pixel_y /\ rpc' = "cell"
    /\ UNCHANGED <<profile, order, source, use_color, terminal_size, stretched, scaled, cells,
                   computeVars>>

\* Lines 112-132: one pixel of the row, p being scaled_image.get_pixel.
Cell(p) ==
    /\ rpc = "cell"
    /\ pixel_x < scaled[1]
    /\ cells' = Append(cells, [x |-> pixel_x, y |-> pixel_y, pixel |-> p])
    /\ out' = [r \in Runs |-> out[r] \o CellInstrs(p, pixel_x, order[r])]
    /\ IF pixel_x + 1 = scaled[1]
       THEN pixel_x' = 0 /\ pixel_y' = pixel_y + 1 /\ rpc' = "row"
       ELSE pixel_x' = pixel_x + 1 /\ pixel_y' = pixel_y /\ rpc' = "cell"
    /\ UNCHANGED <<profile, order, source, use_color, terminal_size, stretched, scaled,
                   computeVars>>

\* Line 135: after the last row the queue is flushed.
Flush ==
    /\ rpc = "row"
    /\ pixel_y >= scaled[2]
    /\ rpc' = "flushed"
    /\ UNCHANGED <<profile, order, source, use_color, terminal_size, stretched, scaled,
                   pixel_y, pixel_x, cells, out, computeVars>>

\* Lines 80-83: a quit key ends the event loop.
Quit ==
    /\ rpc = "flushed"
    /\ rpc' = "exit"
    /\ UNCHANGED <<profile, order, source, use_color, terminal_size, stretched, scaled,
                   pixel_y, pixel_x, cells, out, computeVars>>

RenderNext ==
    \/ \E size \in (1..MaxCols) \X TermRows : DrawStart(size)
    \/ RowStart
    \/ \E p \in RenderPixels : Cell(p)
    \/ Flush
    \/ Quit

RenderSpec == InitRender /\ [][RenderNext]_vars

---------------------------------------------------------------------------
\* Properties of draw_ascii_image.

InDraw == rpc \in {"row", "cell", "flushed", "exit"}
IsPrint(i) == i.op = "Print"
IsColor(i) == i.op = "SetForegroundColor"
IsColumn(i) == i.op = "MoveToColumn"
IsDrawnCell(c) == c.pixel[4] > 0
Prints(r) == SelectSeq(out[r], IsPrint)
Colors(r) == SelectSeq(out[r], IsColor)
Columns(r) == SelectSeq(out[r], IsColumn)
DrawnCells == SelectSeq(cells, IsDrawnCell)
CellBrightness(c) == Luma(c.pixel) * c.pixel[4]
Distance(ch, b) == AbsDiff(profile[ch], b)
Tied(b) ==
    \E c, d \in DOMAIN profile : c # d /\ Distance(c, b) = Distance(d, b)
                                  /\ \A e \in DOMAIN profile : Distance(c, b) <= Distance(e, b)
\* Positions of the Print instructions in the stream of execution r.
PrintAt(r) == {i \in 1..Len(out[r]) : IsPrint(out[r][i])}

\* C3 (as claimed) -- render determinism: two executions on an equal
\* profile, the same image, terminal size and colour flag emit the same
\* instructions, also when profile characters are equally close to a cell.
C3_Deterministic == out[1] = out[2]

\* C3 (amended) -- the two executions emit the same instructions as long as
\* no drawn cell has two profile characters at the same least distance from
\* its brightness.
C3_DeterministicWithoutTies ==
    (\A k \in 1..Len(DrawnCells) : ~Tied(CellBrightness(DrawnCells[k]))) => out[1] = out[2]

C3_Witness ==
    /\ rpc = "flushed"
    /\ order[1] # order[2]
    /\ Len(DrawnCells) >= 2
    /\ \A k \in 1..Len(DrawnCells) : ~Tied(CellBrightness(DrawnCells[k]))
    /\ out[1] = out[2]

C5_NearestBrightness ==
    \A r \in Runs :
        /\ Len(Prints(r)) = Len(DrawnCells)
        /\ \A k \in 1..Len(DrawnCells) :
              LET b == CellBrightness(DrawnCells[k])
                  ch == Prints(r)[k].arg[1]
              IN  /\ b >= 0 /\ b <= 255 * 255
                  /\ IF DOMAIN profile = {} THEN ch = 32
                     ELSE /\ ch \in DOMAIN profile
                          /\ \A c \in DOMAIN profile : Distance(ch, b) <= Distance(c, b)

C5_Witness ==
    /\ rpc = "flushed"
    /\ DOMAIN profile # {}
    /\ \E k \in 1..Len(DrawnCells) :
          /\ ~Tied(CellBrightness(DrawnCells[k]))
          /\ Prints(1)[k].arg[1] = 64
    /\ \E k \in 1..Len(DrawnCells) : Prints(1)[k].arg[1] = 33

\* C6 -- transparent cells are never drawn: the cells of alpha zero get no
\* print and no colour instruction, and every cell of alpha > 0 gets exactly
\* one print instruction, at its own column.
C6_TransparentNeverDrawn ==
    \A r \in Runs :
        /\ Len(Prints(r)) = Len(DrawnCells)
        /\ Len(Colors(r)) = (IF use_color THEN Len(DrawnCells) ELSE 0)
        /\ Len(Columns(r)) = Len(DrawnCells)
        /\ \A k \in 1..Len(Columns(r)) : Columns(r)[k].arg[1] = DrawnCells[k].x

\* Every cell of the frame was transparent and nothing was printed.
C6_Witness ==
    /\ rpc = "flushed"
    /\ Len(cells) >= 2
    /\ DrawnCells = <<>>
    /\ Prints(1) = <<>> /\ Colors(1) = <<>>

\* C8 (as claimed) -- colour/character adjacency: with the colour flag on,
\* the set-foreground-colour instruction of a cell directly precedes the
\* cell's print instruction, nothing in between.
C8_ColorDirectlyBeforePrint ==
    use_color =>
        \A r \in Runs : \A i \in PrintAt(r) : i > 1 /\ IsColor(out[r][i - 1])

\* C8 (amended) -- with the colour flag on, every print instruction is
\* preceded by the move-to-column instruction of its cell and, directly
\* before that, by the set-foreground-colour instruction carrying the cell's
\* RGB triple: only the cell's own cursor move separates colour and
\* character.
C8_ColorThenColumnThenPrint ==
    use_color =>
        \A r \in Runs :
            /\ Cardinality(PrintAt(r)) = Len(DrawnCells)
            /\ \A i \in PrintAt(r) :
                  LET k == Cardinality({j \in PrintAt(r) : j <= i})
                      cell == DrawnCells[k]
                  IN  /\ i > 2
                      /\ out[r][i - 1] = MoveToColumn(cell.x)
                      /\ out[r][i - 2] =
                            SetForegroundColor(cell.pixel[1], cell.pixel[2], cell.pixel[3])

C8_Witness ==
    /\ rpc = "flushed"
    /\ use_color
    /\ Len(DrawnCells) >= 2
    /\ \E k \in 1..Len(DrawnCells) : DrawnCells[k].pixel[1] # DrawnCells[k].pixel[2]

====
